---- MODULE Spec2Model ----
(***************************************************************************)
(* A model of the alignment-and-segmentation engine of subtitle-parse:     *)
(*   - the text normalizer            (pdf_to_parquet.py: clean_text)      *)
(*   - the line extractor             (pdf_to_parquet.py:                  *)
(*                                     extract_line_content)               *)
(*   - the section segmenter          (titles_with_content.py)             *)
(* Strings are TLA+ strings, taken apart with Len and SubSeq.              *)
(***************************************************************************)
EXTENDS Integers, Sequences, FiniteSets, TLC

VARIABLES
    \* ---- line extractor (extract_line_content) ----
    pages,              \* the page texts the PDF reader has returned so far
    lines,              \* lines = page_text.split('\n') of the current page
    i,                  \* index into lines (0-based, as in the code)
    page_line_number,   \* the per-page line counter
    pdf_lines,          \* the (text, page, line) tuples emitted so far
    xpc,                \* position of the extractor: "pages", "lines", "done"
    \* ---- section segmenter (titles_with_content.py: main) ----
    pdf_lines_df,       \* the loaded line table (a set of LineRecords)
    outlines_df,        \* the matched-outline table as loaded (a sequence of rows)
    sorted_df,          \* outlines_df as rebound by preprocess_dataframes
    pdf_lines_dict,     \* doc -> page -> lines sorted by line_number
    sections,           \* the ContentSection list
    result_df,          \* the rows written by save_sections_to_parquet
    spc,                \* position of main: "start", "loaded", ...
    \* ---- text normalizer applied twice (clean_text) ----
    text_in,            \* the input string
    once,               \* clean_text(text_in)
    twice,              \* clean_text(clean_text(text_in))
    npc,                \* "input", "once", "twice"
    \* ---- title/line matcher (title_whit_lines.py, unitque_titles_pdf.py) ----
    page_texts,         \* page number -> raw lines of the page (page.extract_text())
    entry,              \* the outline entry: title and target page
    table_df,           \* the persisted line table of the document
    merged_df,          \* the rows match_titles_with_lines returns
    stream_line,        \* the line number encontrar_linea_titulo returns
    mpc,                \* "start", "extracted", "merged", "found"
    \* ---- outline extractor (extract_outline_content) ----
    outline,            \* reader.outline: the bookmark tree
    outlines,           \* the entries appended so far
    opc,                \* "start", "done"
    \* ---- line-extraction run (pdf_to_parquet.py: convert_all) ----
    all_files,          \* the PDF files of the run, with what extraction does
    file_idx,           \* number of files processed
    batch_sections,     \* process_batch's all_sections of the current batch
    all_sections,       \* convert_all's all_sections
    parquet_files,      \* the parquet files in the output directory
    bpc,                \* "batch", "remaining", "merge", "done"
    \* ---- outline-extraction run (convert_all_outlines) ----
    pdf_files,          \* the PDF files of the run, with what extraction does
    pdf_idx,            \* number of files processed
    batch_outlines,     \* process_batch's all_outlines of the current batch
    all_outlines,       \* convert_all_outlines' all_outlines
    csv_rows,           \* the rows of outlines_<year>.csv (NotWritten if absent)
    rpc,                \* "batch", "write", "done", "raised"
    \* ---- merge of the batch files (merge_parquet_files) ----
    merge_files,        \* parquet_files: the files the glob returned
    on_disk,            \* indices of merge_files still in the directory
    read_tables,        \* the tables read so far
    combined,           \* combined_documents.parquet
    merge_log,          \* what logging.error was called with, if anything
    gpc,                \* "start", "read", "concat", "write", "unlink", "returned"
    \* ---- corpus cleanup (list_duplicate_content.py: main) ----
    input_df,           \* the section table read from input_path
    corpus_df,          \* df: the section table being cleaned
    report_csv,         \* duplicate_lines_report.csv
    cleaned_parquet,    \* content_sections_cleaned_*.parquet
    recleaned,          \* the two cleanup steps applied to each cleaned content
    cpc,                \* "loaded", "filtered", "chars", "report", "lines", "saved", "again"
    \* ---- one raw string as outline title and as page line ----
    raw_string,         \* the string both extractors read
    outline_title,      \* the title the outline extractor stores
    line_text,          \* the line_text the line extractor stores
    clean_title,        \* clean_title of match_titles_with_lines
    clean_line_text,    \* clean_line_text of match_titles_with_lines
    tpc,                \* "start", "extracted", "cleaned"
    \* ---- batch download loop (FileHandler, masive_async_pdf_downloader) ----
    data,               \* the rows of the dataset: what happens to each download
    current_position,   \* self.current_position
    downloaded_files,   \* what the last call returned
    submitted,          \* the rows handed to a batch so far
    dpc                 \* "call", "test", "stopped"

xvars == <<pages, lines, i, page_line_number, pdf_lines, xpc>>
svars == <<pdf_lines_df, outlines_df, sorted_df, pdf_lines_dict, sections, result_df, spc>>
nvars == <<text_in, once, twice, npc>>
mvars == <<page_texts, entry, table_df, merged_df, stream_line, mpc>>
ovars == <<outline, outlines, opc>>
bvars == <<all_files, file_idx, batch_sections, all_sections, parquet_files, bpc>>
rvars == <<pdf_files, pdf_idx, batch_outlines, all_outlines, csv_rows, rpc>>
gvars == <<merge_files, on_disk, read_tables, combined, merge_log, gpc>>
cvars == <<input_df, corpus_df, report_csv, cleaned_parquet, recleaned, cpc>>
tvars == <<raw_string, outline_title, line_text, clean_title, clean_line_text, tpc>>
dvars == <<data, current_position, downloaded_files, submitted, dpc>>
\* the components added to the model after the first seven
latervars == <<gvars, cvars, tvars, dvars>>
vars == <<xvars, svars, nvars, mvars, ovars, bvars, rvars, latervars>>

\* the components a specification does not run stay as constructed
NIdle ==
    /\ text_in = ""
    /\ once = ""
    /\ twice = ""
    /\ npc = "idle"

MIdle ==
    /\ page_texts = <<>>
    /\ entry = <<>>
    /\ table_df = <<>>
    /\ merged_df = <<>>
    /\ stream_line = 0
    /\ mpc = "idle"

OIdle ==
    /\ outline = <<>>
    /\ outlines = <<>>
    /\ opc = "idle"

BIdle ==
    /\ all_files = <<>>
    /\ file_idx = 0
    /\ batch_sections = <<>>
    /\ all_sections = <<>>
    /\ parquet_files = <<>>
    /\ bpc = "idle"

RIdle ==
    /\ pdf_files = <<>>
    /\ pdf_idx = 0
    /\ batch_outlines = <<>>
    /\ all_outlines = <<>>
    /\ csv_rows = <<>>
    /\ rpc = "idle"

GIdle ==
    /\ merge_files = <<>>
    /\ on_disk = {}
    /\ read_tables = <<>>
    /\ combined = <<>>
    /\ merge_log = ""
    /\ gpc = "idle"

CIdle ==
    /\ input_df = <<>>
    /\ corpus_df = <<>>
    /\ report_csv = <<>>
    /\ cleaned_parquet = <<>>
    /\ recleaned = <<>>
    /\ cpc = "idle"

TIdle ==
    /\ raw_string = ""
    /\ outline_title = ""
    /\ line_text = ""
    /\ clean_title = ""
    /\ clean_line_text = ""
    /\ tpc = "idle"

DIdle ==
    /\ data = <<>>
    /\ current_position = 0
    /\ downloaded_files = <<>>
    /\ submitted = {}
    /\ dpc = "idle"

LaterIdle == GIdle /\ CIdle /\ TIdle /\ DIdle

(***************************************************************************)
(* Bounds of the model.                                                    *)
(***************************************************************************)
\* raw lines of one document, over all its pages
MaxRaw == 4
\* pages of one document read by the line extractor
MaxPages == 2
\* rows of the matched-outline table
MaxRows == 3
\* highest page an outline entry points at; the line table has one page more
MaxPage == 3
\* highest line_number on a page of the line table
MaxLine == 2

(***************************************************************************)
(* Text normalizer.                                                        *)
(***************************************************************************)
Char(s, k) == SubSeq(s, k, k)

\* \w of Python's re on str: letters, digits and the underscore
WordChars ==
    { "A", "B", "C", "D", "E", "F", "G", "H", "I", "J", "K", "L", "M",
      "N", "O", "P", "Q", "R", "S", "T", "U", "V", "W", "X", "Y", "Z",
      "a", "b", "c", "d", "e", "f", "g", "h", "i", "j", "k", "l", "m",
      "n", "o", "p", "q", "r", "s", "t", "u", "v", "w", "x", "y", "z",
      "Ó", "É", "ó", "é", "0", "1", "2", "3", "4", "5", "6", "7", "8",
      "9", "_" }

\* \s of Python's re, and what str.strip() removes (a line holds no "\n")
Whitespace == { " ", "\t" }

\* re.sub(r'(\w)\1+', r'\1', texto): every run of one word character
\* becomes a single occurrence
RECURSIVE CollapseWordRuns(_, _)
CollapseWordRuns(s, k) ==
    IF k > Len(s) THEN ""
    ELSE IF k > 1 /\ Char(s, k) = Char(s, k - 1) /\ Char(s, k) \in WordChars
         THEN CollapseWordRuns(s, k + 1)
         ELSE Char(s, k) \o CollapseWordRuns(s, k + 1)

\* texto.replace(c + c, c): one left-to-right pass over non-overlapping pairs
RECURSIVE ReplaceDouble(_, _, _)
ReplaceDouble(s, c, k) ==
    IF k > Len(s) THEN ""
    ELSE IF k < Len(s) /\ Char(s, k) = c /\ Char(s, k + 1) = c
         THEN c \o ReplaceDouble(s, c, k + 2)
         ELSE Char(s, k) \o ReplaceDouble(s, c, k + 1)

\* re.sub(r',+', ',', texto)
RECURSIVE CollapseCommas(_, _)
CollapseCommas(s, k) ==
    IF k > Len(s) THEN ""
    ELSE IF k > 1 /\ Char(s, k) = "," /\ Char(s, k - 1) = ","
         THEN CollapseCommas(s, k + 1)
         ELSE Char(s, k) \o CollapseCommas(s, k + 1)

\* re.sub(r'\s+', ' ', texto)
RECURSIVE CollapseSpaces(_, _)
CollapseSpaces(s, k) ==
    IF k > Len(s) THEN ""
    ELSE IF Char(s, k) \in Whitespace
         THEN IF k > 1 /\ Char(s, k - 1) \in Whitespace
              THEN CollapseSpaces(s, k + 1)
              ELSE " " \o CollapseSpaces(s, k + 1)
         ELSE Char(s, k) \o CollapseSpaces(s, k + 1)

\* str.strip()
RECURSIVE LStrip(_)
LStrip(s) ==
    IF Len(s) > 0 /\ Char(s, 1) \in Whitespace
    THEN LStrip(SubSeq(s, 2, Len(s)))
    ELSE s

RECURSIVE RStrip(_)
RStrip(s) ==
    IF Len(s) > 0 /\ Char(s, Len(s)) \in Whitespace
    THEN RStrip(SubSeq(s, 1, Len(s) - 1))
    ELSE s

Strip(s) == RStrip(LStrip(s))

\* AsyncPDFConverter.clean_text
clean_text(texto) ==
    LET t1 == CollapseWordRuns(texto, 1)
        t2 == ReplaceDouble(t1, "-", 1)
        t3 == ReplaceDouble(t2, ":", 1)
        t4 == ReplaceDouble(t3, ".", 1)
        t5 == CollapseCommas(t4, 1)
    IN  Strip(CollapseSpaces(t5, 1))

(***************************************************************************)
(* Line extractor: extract_line_content.                                   *)
(***************************************************************************)
known_combinations ==
    << <<"REQUISITOS DE PARTICIPACIÓN Y CRITERIOS DE", "EVALUACIÓN">>,
       <<"SUMINISTROS REQUERIDOS - ESPECIFICACIONES", "TÉCNICAS">> >>

\* The raw lines a page is made of in this model: a blank line, an ordinary
\* line, and lines that normalize to the parts of the known combinations.
RawLines ==
    { " ",
      "Anexo  1",
      "REQUISITOS DE  PARTICIPACIÓN Y CRITERIOS DE",
      "EVALUACIÓNN ",
      "SUMINISTROS REQUERIDOS -- ESPECIFICACIONES",
      "TÉCNICAS" }

\* page.extract_text() returning None or '' (a falsy page_text)
NoText == "NoText"

RECURSIVE SeqsUpTo(_, _)
SeqsUpTo(S, n) ==
    IF n = 0 THEN { <<>> }
    ELSE LET shorter == SeqsUpTo(S, n - 1)
         IN  shorter \cup { Append(q, e) : q \in { t \in shorter : Len(t) = n - 1 }, e \in S }

RECURSIVE RawCount(_)
RawCount(ps) ==
    IF ps = <<>> THEN 0
    ELSE (IF Head(ps) = NoText THEN 0 ELSE Len(Head(ps))) + RawCount(Tail(ps))

\* what page.extract_text() may return, split at '\n'
PageTexts(budget) == SeqsUpTo(RawLines, budget) \ { <<>> }

\* self.clean_text(lines[k].strip()), tabulated over the raw lines
CleanedRaw == [ r \in RawLines |-> clean_text(Strip(r)) ]

\* the known combinations (part1, part2) equal to (clean_line, next_line)
MatchedCombination_FirstPart(clean_line, next_line) ==
    { k \in 1..Len(known_combinations) : clean_line = known_combinations[k][1] }
MatchedCombination(clean_line, next_line) ==
    { k \in 1..Len(known_combinations) :
        /\ clean_line = known_combinations[k][1]
        /\ next_line = known_combinations[k][2] }

\* page_line_number += 1
NextLineNumber_Stuck(n) == n
NextLineNumber(n) == n + 1

\* the tuple appended to pdf_lines
LineTuple(text, page, line) == [ text |-> text, page |-> page, line |-> line ]

XInit ==
    /\ pages = <<>>
    /\ lines = <<>>
    /\ i = 0
    /\ page_line_number = 0
    /\ pdf_lines = <<>>
    /\ xpc = "pages"

\* for page_number, page in enumerate(pdf.pages, start=1): a page with text
ReadPage ==
    /\ xpc = "pages"
    /\ Len(pages) < MaxPages
    /\ RawCount(pages) < MaxRaw
    /\ \E page_text \in PageTexts(MaxRaw - RawCount(pages)) :
          /\ pages' = Append(pages, page_text)
          /\ lines' = page_text
    /\ page_line_number' = 0
    /\ i' = 0
    /\ xpc' = "lines"
    /\ UNCHANGED pdf_lines

\* a page whose page_text is falsy is skipped
SkipPage ==
    /\ xpc = "pages"
    /\ Len(pages) < MaxPages
    /\ pages' = Append(pages, NoText)
    /\ UNCHANGED <<lines, i, page_line_number, pdf_lines, xpc>>

\* one iteration of: while i < len(lines)
LineStep ==
    /\ xpc = "lines"
    /\ i < Len(lines)
    /\ LET clean_line == CleanedRaw[lines[i + 1]]
           has_next == i + 1 < Len(lines)
           next_line == IF has_next THEN CleanedRaw[lines[i + 2]] ELSE ""
           merge == has_next /\ MatchedCombination(clean_line, next_line) # {}
           out_line == IF merge THEN clean_line \o " " \o next_line ELSE clean_line
           number == NextLineNumber(page_line_number)
       IN  /\ page_line_number' = number
           /\ pdf_lines' = IF out_line # ""
                           THEN Append(pdf_lines, LineTuple(out_line, Len(pages), number))
                           ELSE pdf_lines
           /\ i' = IF merge THEN i + 2 ELSE i + 1
    /\ UNCHANGED <<pages, lines, xpc>>

\* the while loop ends: back to the for loop over the pages
EndPage ==
    /\ xpc = "lines"
    /\ i >= Len(lines)
    /\ xpc' = "pages"
    /\ UNCHANGED <<pages, lines, i, page_line_number, pdf_lines>>

\* the for loop ends: return pdf_lines
ReturnLines ==
    /\ xpc = "pages"
    /\ xpc' = "done"
    /\ UNCHANGED <<pages, lines, i, page_line_number, pdf_lines>>

SIdle ==
    /\ pdf_lines_df = {}
    /\ outlines_df = <<>>
    /\ sorted_df = <<>>
    /\ pdf_lines_dict = <<>>
    /\ sections = <<>>
    /\ result_df = <<>>
    /\ spc = "idle"

InitLines == XInit /\ SIdle /\ NIdle /\ MIdle /\ OIdle /\ BIdle /\ RIdle /\ LaterIdle

NextLines ==
    \/ ReadPage /\ UNCHANGED <<svars, nvars, mvars, ovars, bvars, rvars, latervars>>
    \/ SkipPage /\ UNCHANGED <<svars, nvars, mvars, ovars, bvars, rvars, latervars>>
    \/ LineStep /\ UNCHANGED <<svars, nvars, mvars, ovars, bvars, rvars, latervars>>
    \/ EndPage /\ UNCHANGED <<svars, nvars, mvars, ovars, bvars, rvars, latervars>>
    \/ ReturnLines /\ UNCHANGED <<svars, nvars, mvars, ovars, bvars, rvars, latervars>>

SpecLines == InitLines /\ [][NextLines]_vars

(***************************************************************************)
(* Properties of the line extractor.                                       *)
(***************************************************************************)
\* the records of pdf_lines that belong to page p, in emission order
RECURSIVE RecordsOfPage(_, _)
RecordsOfPage(recs, p) ==
    IF recs = <<>> THEN <<>>
    ELSE (IF Head(recs).page = p THEN <<Head(recs)>> ELSE <<>>)
         \o RecordsOfPage(Tail(recs), p)

TextsOf(recs) == [ k \in 1..Len(recs) |-> recs[k].text ]

\* C8: the emitted LineRecords have pairwise distinct (page_number,
\* line_number), line_number strictly increasing within a page, and
\* page_number non-decreasing along the emitted sequence.
C8_LineOrder ==
    \A a, b \in 1..Len(pdf_lines) :
        a < b =>
            /\ pdf_lines[a].page <= pdf_lines[b].page
            /\ pdf_lines[a].page = pdf_lines[b].page
                  => pdf_lines[a].line < pdf_lines[b].line
            /\ <<pdf_lines[a].page, pdf_lines[a].line>>
                  # <<pdf_lines[b].page, pdf_lines[b].line>>

\* a finished document with two records on one page and a record on another
C8_Witness ==
    /\ xpc = "done"
    /\ \E a, b, c \in 1..Len(pdf_lines) :
          /\ a < b /\ b < c
          /\ pdf_lines[a].page = pdf_lines[b].page
          /\ pdf_lines[b].page < pdf_lines[c].page

\* raw lines k and k+1 of a page normalize to a known combination
IsPairAt(raw, k) ==
    /\ k >= 1
    /\ k < Len(raw)
    /\ \E c \in 1..Len(known_combinations) :
          /\ CleanedRaw[raw[k]] = known_combinations[c][1]
          /\ CleanedRaw[raw[k + 1]] = known_combinations[c][2]

\* C9: the per-page counter advances by one for every raw line consumed
\* (dropped ones included) and by two on a merge, so that it equals the
\* number of raw lines consumed, and the line_number of every emitted
\* record is the 1-based index of the raw line the record starts at.
C9_LineNumberIsRawIndex ==
    /\ xpc = "lines" => page_line_number = i
    /\ \A k \in 1..Len(pdf_lines) :
          LET r == pdf_lines[k]
              raw == pages[r.page]
          IN  /\ r.line <= Len(raw)
              /\ \/ r.text = CleanedRaw[raw[r.line]]
                 \/ /\ IsPairAt(raw, r.line)
                    /\ r.text = CleanedRaw[raw[r.line]] \o " "
                                   \o CleanedRaw[raw[r.line + 1]]

\* the texts the claim expects from raw lines k.. of a page: a pair gives one
\* text part1 + " " + part2, any other line gives its own text unless empty
RECURSIVE ExpectedTexts(_, _)
ExpectedTexts(raw, k) ==
    IF k > Len(raw) THEN <<>>
    ELSE IF IsPairAt(raw, k - 1) THEN ExpectedTexts(raw, k + 1)
    ELSE IF IsPairAt(raw, k)
         THEN << CleanedRaw[raw[k]] \o " " \o CleanedRaw[raw[k + 1]] >>
              \o ExpectedTexts(raw, k + 1)
    ELSE IF CleanedRaw[raw[k]] = "" THEN ExpectedTexts(raw, k + 1)
    ELSE << CleanedRaw[raw[k]] >> \o ExpectedTexts(raw, k + 1)

\* the raw lines of page p consumed so far
Consumed(p) ==
    IF pages[p] = NoText THEN <<>>
    ELSE IF p = Len(pages) /\ xpc = "lines" THEN SubSeq(lines, 1, i)
    ELSE pages[p]

\* C10: two adjacent raw lines that normalize to the parts of a known
\* combination give exactly one LineRecord, with text part1 + " " + part2,
\* and the second line gives no record of its own; every other line is
\* emitted unmerged.
C10_MergeKnownPairs ==
    \A p \in 1..Len(pages) :
        TextsOf(RecordsOfPage(pdf_lines, p)) = ExpectedTexts(Consumed(p), 1)

\* a finished document with a merged pair, and a first part followed by a
\* line that is not its second part
C10_Witness ==
    /\ xpc = "done"
    /\ \E k \in 1..Len(pdf_lines) :
          pdf_lines[k].text = known_combinations[1][1] \o " "
                                 \o known_combinations[1][2]
    /\ \E k \in 1..Len(pdf_lines) :
          pdf_lines[k].text = known_combinations[2][1]

(***************************************************************************)
(* Section segmenter: titles_with_content.py.                              *)
(***************************************************************************)
Docs == { "d1", "d2" }
\* the order of the document ids as strings
DocRank == [ d \in Docs |-> IF d = "d1" THEN 1 ELSE 2 ]

\* A null line_number read back from parquet (float NaN), and Python's None.
\* Both are numbers outside the line numbers, which start at 1; every
\* comparison below tests for them first.
NaN == -1
None == -2

Digits == << "1", "2", "3", "4", "5", "6", "7", "8", "9" >>

\* Every line of the modelled line table has a text of its own, so that the
\* content of a section tells which LineRecords it holds.
TextOf(doc, page, line) == doc \o "p" \o Digits[page] \o "l" \o Digits[line]

LineRecord(doc, page, line) ==
    [ document_id |-> doc, page_number |-> page, line_number |-> line,
      line_text |-> TextOf(doc, page, line) ]

LinePages == 1..(MaxPage + 1)

FullTable == { LineRecord(d, p, l) : d \in Docs, p \in LinePages, l \in 1..MaxLine }

\* The line tables of the model: every line of both documents, or document
\* d1 without its second page (a page without text gives no records).
LineTables ==
    { FullTable,
      { r \in FullTable : ~(r.document_id = "d1" /\ r.page_number = 2) } }

\* The title of a row tells its place in the loaded table.
Titles == << "t1", "t2", "t3", "t4", "t5", "t6", "t7", "t8", "t9" >>

\* The rows of the matched-outline table: document d1 has entries on every
\* page and line, matched or not; d2, the other document, on its first page.
RowKeys ==
    [ document_id : { "d1" }, page : 1..MaxPage, line_number : (1..MaxLine) \cup { NaN } ]
    \cup [ document_id : { "d2" }, page : { 1 }, line_number : (1..MaxLine) \cup { NaN } ]

OutlineRow(key, k) ==
    [ document_id |-> key.document_id, page |-> key.page,
      line_number |-> key.line_number, title |-> Titles[k] ]

OutlineTables ==
    { [ k \in 1..Len(keys) |-> OutlineRow(keys[k], k) ] : keys \in SeqsUpTo(RowKeys, MaxRows) }

\* comparisons of Python floats: every comparison with NaN is False
NumLT(a, b) == a # NaN /\ b # NaN /\ a < b
NumGE(a, b) == a # NaN /\ b # NaN /\ a >= b

\* pdf_lines_dict[doc][page].sort(key=lambda x: x['line_number'])
RECURSIVE SortByLineNumber(_)
SortByLineNumber(S) ==
    IF S = {} THEN <<>>
    ELSE LET first == CHOOSE r \in S : \A q \in S : r.line_number <= q.line_number
         IN  << [ line_number |-> first.line_number, line_text |-> first.line_text ] >>
             \o SortByLineNumber(S \ { first })

\* the defaultdict built by preprocess_dataframes: only pages with lines are keys
BuildLinesDict(df) ==
    [ d \in Docs |->
        [ p \in { r.page_number : r \in { q \in df : q.document_id = d } } |->
            SortByLineNumber({ r \in df : r.document_id = d /\ r.page_number = p }) ] ]

\* BuildLinesDict, tabulated over the line tables of the model
LinesDictOf == [ t \in LineTables |-> BuildLinesDict(t) ]

\* the order of sort_values on one column, missing values last (na_position='last')
LineNumberLT(a, b) == (a # NaN /\ b = NaN) \/ NumLT(a, b)

\* outlines_df.sort_values(['document_id', 'page', 'line_number']): row a
\* sorts strictly before row b
RowLT_IgnoreLine(a, b) ==
    \/ DocRank[a.document_id] < DocRank[b.document_id]
    \/ a.document_id = b.document_id /\ a.page < b.page
RowLT(a, b) ==
    \/ DocRank[a.document_id] < DocRank[b.document_id]
    \/ /\ a.document_id = b.document_id
       /\ \/ a.page < b.page
          \/ a.page = b.page /\ LineNumberLT(a.line_number, b.line_number)

\* stable insertion: r goes behind every row that does not sort after it
RECURSIVE InsertRow(_, _)
InsertRow(sorted, r) ==
    IF sorted = <<>> THEN << r >>
    ELSE IF RowLT(r, Head(sorted)) THEN << r >> \o sorted
    ELSE << Head(sorted) >> \o InsertRow(Tail(sorted), r)

RECURSIVE SortValues(_)
SortValues(df) ==
    IF df = <<>> THEN <<>>
    ELSE InsertRow(SortValues(SubSeq(df, 1, Len(df) - 1)), df[Len(df)])

\* get_section_content, line 89: the line lies before the start of the section
BeforeStart_Inclusive(page, start_page, line_num, start_line) ==
    page = start_page /\ (start_line # NaN /\ line_num <= start_line)
BeforeStart(page, start_page, line_num, start_line) ==
    page = start_page /\ NumLT(line_num, start_line)

\* get_section_content, line 91: the line lies at or behind the end of the section
AtEnd_Exclusive(page, end_page, line_num, end_line) ==
    page = end_page /\ end_line # None /\ end_line # NaN /\ line_num > end_line
AtEnd(page, end_page, line_num, end_line) ==
    page = end_page /\ end_line # None /\ NumGE(line_num, end_line)

\* the loop over the lines of one page: continue before the start, break at the end
RECURSIVE PageContent(_, _, _, _, _, _)
PageContent(page_lines, page, start_page, end_page, start_line, end_line) ==
    IF page_lines = <<>> THEN <<>>
    ELSE LET line == Head(page_lines)
             rest == PageContent(Tail(page_lines), page, start_page, end_page,
                                 start_line, end_line)
         IN  IF BeforeStart(page, start_page, line.line_number, start_line) THEN rest
             ELSE IF AtEnd(page, end_page, line.line_number, end_line) THEN <<>>
             ELSE << line.line_text >> \o rest

\* get_section_content: for page in range(start_page, end_page + 1)
RECURSIVE get_section_content(_, _, _, _, _, _)
get_section_content(dict, doc_id, start_page, end_page, start_line, end_line) ==
    IF start_page > end_page THEN <<>>
    ELSE LET rest == get_section_content(dict, doc_id, start_page + 1, end_page,
                                         NaN, end_line)
         IN  IF start_page \notin DOMAIN dict[doc_id] THEN rest
             ELSE PageContent(dict[doc_id][start_page], start_page, start_page,
                              end_page, start_line, end_line) \o rest

\* extract_content_sections, lines 113-120: the end of the section of row k
SectionEnd_SamePage(doc_rows, k) ==
    IF k < Len(doc_rows)
    THEN [ page |-> doc_rows[k + 1].page, line |-> doc_rows[k + 1].line_number ]
    ELSE [ page |-> doc_rows[k].page, line |-> None ]
SectionEnd(doc_rows, k) ==
    IF k < Len(doc_rows)
    THEN [ page |-> doc_rows[k + 1].page, line |-> doc_rows[k + 1].line_number ]
    ELSE [ page |-> doc_rows[k].page + 1, line |-> None ]

\* the ContentSection built for row k of one document
ContentSection(dict, doc_id, doc_rows, k) ==
    LET current == doc_rows[k]
        end == SectionEnd(doc_rows, k)
    IN  [ title |-> current.title,
          content |-> get_section_content(dict, doc_id, current.page, end.page,
                                          current.line_number, end.line),
          page |-> current.page,
          line_start |-> current.line_number,
          line_end |-> end.line,
          document_id |-> doc_id ]

DocRows(df, doc_id) == SelectSeq(df, LAMBDA row : row.document_id = doc_id)

DocSections(dict, df, doc_id) ==
    LET doc_rows == DocRows(df, doc_id)
    IN  [ k \in 1..Len(doc_rows) |-> ContentSection(dict, doc_id, doc_rows, k) ]

\* extract_content_sections: groupby('document_id') goes through the documents
\* in the order of their ids
extract_content_sections(dict, df) ==
    DocSections(dict, df, "d1") \o DocSections(dict, df, "d2")

\* '\n'.join(section.content)
RECURSIVE JoinLines(_)
JoinLines(content) ==
    IF content = <<>> THEN ""
    ELSE IF Len(content) = 1 THEN content[1]
    ELSE content[1] \o "\n" \o JoinLines(Tail(content))

\* save_sections_to_parquet, line 166: content_length
ContentLength_Chars(content) == Len(JoinLines(content))
ContentLength(content) == Len(content)

SectionRow(section) ==
    [ document_id |-> section.document_id,
      title |-> section.title,
      content |-> JoinLines(section.content),
      page |-> section.page,
      line_start |-> section.line_start,
      line_end |-> section.line_end,
      content_length |-> ContentLength(section.content) ]

XIdle ==
    /\ pages = <<>>
    /\ lines = <<>>
    /\ i = 0
    /\ page_line_number = 0
    /\ pdf_lines = <<>>
    /\ xpc = "idle"

SInit ==
    /\ pdf_lines_df = {}
    /\ outlines_df = <<>>
    /\ sorted_df = <<>>
    /\ pdf_lines_dict = <<>>
    /\ sections = <<>>
    /\ result_df = <<>>
    /\ spc = "start"

\* main: load_dataframes reads the two tables
LoadDataframes ==
    /\ spc = "start"
    /\ pdf_lines_df' \in LineTables
    /\ outlines_df' \in OutlineTables
    /\ spc' = "loaded"
    /\ UNCHANGED <<sorted_df, pdf_lines_dict, sections, result_df>>

\* main: preprocess_dataframes
PreprocessDataframes ==
    /\ spc = "loaded"
    /\ pdf_lines_dict' = LinesDictOf[pdf_lines_df]
    /\ sorted_df' = SortValues(outlines_df)
    /\ spc' = "preprocessed"
    /\ UNCHANGED <<pdf_lines_df, outlines_df, sections, result_df>>

\* main: extract_content_sections
ExtractContentSections ==
    /\ spc = "preprocessed"
    /\ sections' = extract_content_sections(pdf_lines_dict, sorted_df)
    /\ spc' = "extracted"
    /\ UNCHANGED <<pdf_lines_df, outlines_df, sorted_df, pdf_lines_dict, result_df>>

\* main: save_sections_to_parquet
SaveSections ==
    /\ spc = "extracted"
    /\ result_df' = [ k \in 1..Len(sections) |-> SectionRow(sections[k]) ]
    /\ spc' = "saved"
    /\ UNCHANGED <<pdf_lines_df, outlines_df, sorted_df, pdf_lines_dict, sections>>

InitSeg == XIdle /\ SInit /\ NIdle /\ MIdle /\ OIdle /\ BIdle /\ RIdle /\ LaterIdle

NextSeg ==
    \/ LoadDataframes /\ UNCHANGED <<xvars, nvars, mvars, ovars, bvars, rvars, latervars>>
    \/ PreprocessDataframes /\ UNCHANGED <<xvars, nvars, mvars, ovars, bvars, rvars, latervars>>
    \/ ExtractContentSections /\ UNCHANGED <<xvars, nvars, mvars, ovars, bvars, rvars, latervars>>
    \/ SaveSections /\ UNCHANGED <<xvars, nvars, mvars, ovars, bvars, rvars, latervars>>

SpecSeg == InitSeg /\ [][NextSeg]_vars

(***************************************************************************)
(* Properties of the section segmenter.                                    *)
(***************************************************************************)
Extracted == spc \in { "extracted", "saved" }

\* position (p1, l1) lies before position (p2, l2)
PosLT(p1, l1, p2, l2) == p1 < p2 \/ (p1 = p2 /\ l1 < l2)

\* every position of a document in ascending (page, line) order
GridInOrder ==
    [ d \in Docs |->
        [ n \in 1..((MaxPage + 1) * MaxLine) |->
            LineRecord(d, ((n - 1) \div MaxLine) + 1, ((n - 1) % MaxLine) + 1) ] ]

\* the texts of a set of LineRecords of a document in ascending position order
TextsInOrder(doc, S) ==
    LET sel == SelectSeq(GridInOrder[doc], LAMBDA r : r \in S)
    IN  [ k \in 1..Len(sel) |-> sel[k].line_text ]

LinesOfDoc(doc) == { r \in pdf_lines_df : r.document_id = doc }

\* the LineRecords whose text a content holds
RecordsIn(doc, content) ==
    { r \in LinesOfDoc(doc) : \E k \in 1..Len(content) : content[k] = r.line_text }

\* section k is the last one of its document
IsFinal(k) ==
    k = Len(sections) \/ sections[k + 1].document_id # sections[k].document_id

\* the page of the end boundary of section k
EndPageOf(k) == IF IsFinal(k) THEN sections[k].page + 1 ELSE sections[k + 1].page

SectionOfRow(sec, row) ==
    /\ sec.title = row.title
    /\ sec.document_id = row.document_id
    /\ sec.page = row.page
    /\ sec.line_start = row.line_number

\* C1: extract_content_sections emits exactly one ContentSection per row of
\* the matched-outline table, and within each document the sections stand in
\* the order of the rows by (page, line_number).
C1_OneSectionPerRow ==
    Extracted =>
        /\ Len(sections) = Len(outlines_df)
        /\ \A k \in 1..Len(outlines_df) :
              Cardinality({ j \in 1..Len(sections) :
                              SectionOfRow(sections[j], outlines_df[k]) }) = 1
        /\ \A a, b \in 1..Len(sections) :
              (a < b /\ sections[a].document_id = sections[b].document_id) =>
                  /\ sections[a].page <= sections[b].page
                  /\ ( /\ sections[a].page = sections[b].page
                       /\ sections[a].line_start # NaN
                       /\ sections[b].line_start # NaN )
                        => sections[a].line_start <= sections[b].line_start

\* three sections of one document from a table that was loaded out of order
C1_Witness ==
    /\ Extracted
    /\ Len(sections) = 3
    /\ sections[1].document_id = sections[3].document_id
    /\ sections[1].line_start # NaN
    /\ PosLT(sections[1].page, sections[1].line_start,
             sections[2].page, sections[2].line_start)
    /\ sections[1].title = "t3"

\* C2: for a non-final entry whose line_number and whose next entry's
\* line_number are both non-null, the content is exactly the LineRecords of
\* the document at positions >= (page_i, line_i) and < (page_i+1, line_i+1),
\* in ascending position order.
C2_ContentBetween ==
    Extracted =>
        \A k \in 1..Len(sections) :
            ( /\ ~IsFinal(k)
              /\ sections[k].line_start # NaN
              /\ sections[k].line_end # NaN )
            => sections[k].content =
                  TextsInOrder(sections[k].document_id,
                      { r \in LinesOfDoc(sections[k].document_id) :
                          /\ ~PosLT(r.page_number, r.line_number,
                                    sections[k].page, sections[k].line_start)
                          /\ PosLT(r.page_number, r.line_number,
                                   sections[k + 1].page, sections[k].line_end) })

\* a section between two matched entries two pages apart, cut at both ends
\* and holding the whole page in between
C2_Witness ==
    /\ Extracted
    /\ \E k \in 1..Len(sections) :
          /\ ~IsFinal(k)
          /\ sections[k].line_start > 1
          /\ sections[k].line_end > 1
          /\ sections[k + 1].page >= sections[k].page + 2
          /\ Len(sections[k].content) >= MaxLine + 2

\* C3 as stated: no LineRecord of a document is in the content of two
\* different sections, whatever the entries (unmatched ones included).
C3_NonOverlap ==
    Extracted =>
        \A a, b \in 1..Len(sections) :
            (a # b /\ sections[a].document_id = sections[b].document_id) =>
                RecordsIn(sections[a].document_id, sections[a].content)
                    \cap RecordsIn(sections[b].document_id, sections[b].content) = {}

\* C3 as amended: two sections of a document share no LineRecord when the end
\* boundary of the earlier one and the start of the later one both have a
\* line_number (which is so for every pair when every entry is matched).
C3_NonOverlapMatched ==
    Extracted =>
        \A a, b \in 1..Len(sections) :
            ( /\ a < b
              /\ sections[a].document_id = sections[b].document_id
              /\ sections[a].line_end # NaN
              /\ sections[a].line_end # None
              /\ sections[b].line_start # NaN )
            => RecordsIn(sections[a].document_id, sections[a].content)
                  \cap RecordsIn(sections[b].document_id, sections[b].content) = {}

\* two non-empty sections of one document, the later starting inside the
\* page on which the earlier ends
C3_Witness ==
    /\ Extracted
    /\ \E a, b \in 1..Len(sections) :
          /\ a < b
          /\ sections[a].document_id = sections[b].document_id
          /\ sections[a].line_end # NaN
          /\ sections[a].line_end # None
          /\ sections[b].line_start # NaN
          /\ sections[b].line_start > 1
          /\ sections[a].content # <<>>
          /\ sections[b].content # <<>>

\* C4: an unmatched entry stands in the segmentation order as if its
\* line_number were 1, before every matched entry of its page with
\* line_number > 1, and its section starts at the top of its page.
C4_UnmatchedAsLineOne ==
    Extracted =>
        /\ \A a, b \in 1..Len(sections) :
              ( /\ sections[a].document_id = sections[b].document_id
                /\ sections[a].page = sections[b].page
                /\ sections[a].line_start = NaN
                /\ sections[b].line_start # NaN
                /\ sections[b].line_start > 1 )
              => a < b
        /\ \A k \in 1..Len(sections) :
              LET onPage == { r \in LinesOfDoc(sections[k].document_id) :
                                 r.page_number = sections[k].page }
              IN  ( /\ sections[k].line_start = NaN
                    /\ onPage # {}
                    /\ EndPageOf(k) > sections[k].page )
                  => /\ sections[k].content # <<>>
                     /\ sections[k].content[1]
                           = TextsInOrder(sections[k].document_id, onPage)[1]

\* C5: when the end boundary of a section has a null line_number (the final
\* section, or a next entry that is unmatched), every LineRecord of the end
\* page is in the section.
C5_WholeEndPage ==
    Extracted =>
        \A k \in 1..Len(sections) :
            sections[k].line_end \in { NaN, None } =>
                { r \in LinesOfDoc(sections[k].document_id) : r.page_number = EndPageOf(k) }
                    \subseteq RecordsIn(sections[k].document_id, sections[k].content)

\* C6: the final section of each document ends at (page + 1, null): it holds
\* the lines of its start page from its start line on and every line of the
\* following page, and no other line.
C6_FinalSection ==
    Extracted =>
        \A k \in 1..Len(sections) :
            IsFinal(k) =>
                /\ sections[k].line_end = None
                /\ sections[k].content =
                      TextsInOrder(sections[k].document_id,
                          { r \in LinesOfDoc(sections[k].document_id) :
                              \/ /\ r.page_number = sections[k].page
                                 /\ \/ sections[k].line_start = NaN
                                    \/ r.line_number >= sections[k].line_start
                              \/ r.page_number = sections[k].page + 1 })

\* the final section of d1 is followed by a section of d2; it starts inside
\* its page and the document has lines on a later page than the next one
C6_Witness ==
    /\ Extracted
    /\ \E k \in 1..Len(sections) :
          /\ k < Len(sections)
          /\ IsFinal(k)
          /\ sections[k].line_start > 1
          /\ Len(sections[k].content) > MaxLine
          /\ \E r \in LinesOfDoc(sections[k].document_id) :
                r.page_number > sections[k].page + 1

\* C7: content_length is the number of LineRecords in the content of the
\* section, and a section without lines is still a row of the output table.
C7_ContentLength ==
    spc = "saved" =>
        /\ Len(result_df) = Len(outlines_df)
        /\ \A k \in 1..Len(outlines_df) :
              \E j \in 1..Len(result_df) : SectionOfRow(result_df[j], outlines_df[k])
        /\ \A k \in 1..Len(result_df) :
              /\ result_df[k].content_length = Len(sections[k].content)
              /\ result_df[k].content_length =
                    Cardinality(RecordsIn(result_df[k].document_id, sections[k].content))

\* two entries at one position: the first has an empty section, which is
\* written, beside a section of several lines
C7_Witness ==
    /\ spc = "saved"
    /\ \E k \in 1..Len(result_df) :
          /\ k < Len(result_df)
          /\ result_df[k].content_length = 0
          /\ result_df[k].line_start # NaN
          /\ result_df[k + 1].document_id = result_df[k].document_id
          /\ result_df[k + 1].page = result_df[k].page
          /\ result_df[k + 1].line_start = result_df[k].line_start
          /\ result_df[k + 1].content_length >= 2

(***************************************************************************)
(* Text normalizer applied to its own output.                              *)
(* clean_text of title_whit_lines.py is the same six steps as              *)
(* AsyncPDFConverter.clean_text, after a pass-through of null input.       *)
(***************************************************************************)
\* longest input string
MaxText == 4

\* the characters of the input strings: a word character, the four
\* punctuation characters the normalizer treats, and a blank
TextChars == { "a", "-", ":", ".", ",", " " }

\* ''.join(cs)
RECURSIVE Join(_)
Join(cs) == IF cs = <<>> THEN "" ELSE Head(cs) \o Join(Tail(cs))

Texts == { Join(cs) : cs \in SeqsUpTo(TextChars, MaxText) }

NInit ==
    /\ text_in \in Texts
    /\ once = ""
    /\ twice = ""
    /\ npc = "input"

\* outlines_df['clean_title'] = outlines_df['title'].apply(clean_text)
CleanOnce ==
    /\ npc = "input"
    /\ once' = clean_text(text_in)
    /\ npc' = "once"
    /\ UNCHANGED <<text_in, twice>>

\* the cleaned text is cleaned again by the next stage that reads it
CleanTwice ==
    /\ npc = "once"
    /\ twice' = clean_text(once)
    /\ npc' = "twice"
    /\ UNCHANGED <<text_in, once>>

InitNorm == NInit /\ XIdle /\ SIdle /\ MIdle /\ OIdle /\ BIdle /\ RIdle /\ LaterIdle

NextNorm ==
    \/ CleanOnce /\ UNCHANGED <<xvars, svars, mvars, ovars, bvars, rvars, latervars>>
    \/ CleanTwice /\ UNCHANGED <<xvars, svars, mvars, ovars, bvars, rvars, latervars>>

SpecNorm == InitNorm /\ [][NextNorm]_vars

\* C11: the normalizer is idempotent: cleaning an already cleaned string
\* returns it unchanged, also for strings with runs of three or more
\* identical '-', ':', '.', ',' and runs of whitespace.
C11_Idempotent == npc = "twice" => twice = once

(***************************************************************************)
(* Title/line matcher.                                                     *)
(*   table mode : match_titles_with_lines (title_whit_lines.py), a left    *)
(*                merge of the outline with the persisted line table       *)
(*   stream mode: encontrar_linea_titulo (unitque_titles_pdf.py), a scan   *)
(*                of the freshly split text of the target page             *)
(***************************************************************************)
\* raw lines on the target page
MaxMatchLines == 3

\* the raw lines a page of the matcher's document is made of
MatchLines ==
    { "",
      "Datos del Contacto",
      "DATOS DEL CONTACTO",
      "1. Datos del Contacto",
      "REQUISITOS DE PARTICIPACIÓN Y CRITERIOS DE",
      "EVALUACIÓN" }

\* the titles of the outline entry
MatchTitles == { "Datos del Contacto", "EVALUACIÓN", "Anexo 1" }

\* the document of the outline entry, and another document of the line table
MatchDoc == "d1"
OtherDoc == "d2"

\* str.lower(), over the letters of the model
UpperChars == "ABCDEFGHIJKLMNOPQRSTUVWXYZÓÉ"
LowerChars == "abcdefghijklmnopqrstuvwxyzóé"

LowerChar(c) ==
    IF \E k \in 1..Len(UpperChars) : Char(UpperChars, k) = c
    THEN Char(LowerChars, CHOOSE k \in 1..Len(UpperChars) : Char(UpperChars, k) = c)
    ELSE c

RECURSIVE Lower(_)
Lower(s) == IF s = "" THEN "" ELSE LowerChar(Char(s, 1)) \o Lower(SubSeq(s, 2, Len(s)))

\* the end of the run of characters of the set cs that starts at k
RECURSIVE RunEnd(_, _, _)
RunEnd(s, k, cs) ==
    IF k < Len(s) /\ Char(s, k + 1) \in cs THEN RunEnd(s, k + 1, cs) ELSE k

\* clean_text_regex.sub(lambda x: x.group(1) if x.group(1) else ' ', texto)
\* with clean_text_regex = (\w)\1+|--|::|\.\.|,+|\s+ : one pass, each match
\* of a word-character run gives the character, every other match a blank
RECURSIVE RegexSub(_, _)
RegexSub(s, k) ==
    IF k > Len(s) THEN ""
    ELSE LET c == Char(s, k)
         IN  IF c \in WordChars /\ k < Len(s) /\ Char(s, k + 1) = c
             THEN c \o RegexSub(s, RunEnd(s, k, {c}) + 1)
             ELSE IF c \in { "-", ":", "." } /\ k < Len(s) /\ Char(s, k + 1) = c
             THEN " " \o RegexSub(s, k + 2)
             ELSE IF c = ","
             THEN " " \o RegexSub(s, RunEnd(s, k, {c}) + 1)
             ELSE IF c \in Whitespace
             THEN " " \o RegexSub(s, RunEnd(s, k, Whitespace) + 1)
             ELSE c \o RegexSub(s, k + 1)

\* AsyncProcesadorPDF.limpiar_texto
limpiar_texto(s) == Strip(RegexSub(s, 1))

\* Python's  sub in s
Contains(sub, s) ==
    \E k \in 0..(Len(s) - Len(sub)) : SubSeq(s, k + 1, k + Len(sub)) = sub

\* extract_line_content on the raw lines of one page, from raw line k on,
\* with n the value of page_line_number so far
RECURSIVE PageLines(_, _, _, _)
PageLines(raw, k, n, page) ==
    IF k > Len(raw) THEN <<>>
    ELSE LET clean_line == clean_text(Strip(raw[k]))
             has_next == k < Len(raw)
             next_line == IF has_next THEN clean_text(Strip(raw[k + 1])) ELSE ""
             merge == has_next /\ MatchedCombination(clean_line, next_line) # {}
             out_line == IF merge THEN clean_line \o " " \o next_line ELSE clean_line
             number == NextLineNumber(n)
             rest == PageLines(raw, IF merge THEN k + 2 ELSE k + 1, number, page)
         IN  IF out_line # "" THEN <<LineTuple(out_line, page, number)>> \o rest
             ELSE rest

\* page.extract_text() of a page is falsy: no line, or one empty line
NoPageText(raw) == raw = <<>> \/ raw = <<"">>

\* a row of the persisted line table (PDFSection)
PDFSection(doc, t) ==
    [ document_id |-> doc, page_number |-> t.page,
      line_number |-> t.line, line_text |-> t.text ]

\* extract_pdf_content over the pages of a document
RECURSIVE DocumentLines(_, _, _)
DocumentLines(doc, texts, p) ==
    IF p > Len(texts) THEN <<>>
    ELSE LET tuples == IF NoPageText(texts[p]) THEN <<>>
                       ELSE PageLines(texts[p], 1, 0, p)
         IN  [ k \in 1..Len(tuples) |-> PDFSection(doc, tuples[k]) ]
             \o DocumentLines(doc, texts, p + 1)

\* the lines of the other document of the table
OtherLines ==
    << [ document_id |-> OtherDoc, page_number |-> 1,
         line_number |-> 1, line_text |-> "Anexo 1" ] >>

\* the right rows a left row is merged with: equal document_id, page and
\* cleaned text
MergeKeyEqual(left, right) ==
    /\ left.document_id = right.document_id
    /\ left.page = right.page_number
    /\ clean_text(left.title) = clean_text(right.line_text)

\* pd.merge(outlines_df, pdf_lines_df, how='left') for one outline row: one
\* output row per matching line, in the order of the line table, or one row
\* with a null line_number
MergeLeft(left, right_df) ==
    LET hits == SelectSeq(right_df, LAMBDA right : MergeKeyEqual(left, right))
    IN  IF hits = <<>>
        THEN << [ document_id |-> left.document_id, title |-> left.title,
                  page |-> left.page, line_number |-> NaN ] >>
        ELSE [ k \in 1..Len(hits) |->
                 [ document_id |-> left.document_id, title |-> left.title,
                   page |-> left.page, line_number |-> hits[k].line_number ] ]

\* encontrar_linea_titulo: the first line of the page, counted from 1 over
\* the raw lines, whose cleaned lower-case text contains the cleaned
\* lower-case title
encontrar_linea_titulo(texts, titulo, pagina) ==
    LET clean_titulo == limpiar_texto(Lower(titulo))
        text_lines == IF pagina <= Len(texts) THEN texts[pagina] ELSE <<>>
        hits == { n \in 1..Len(text_lines) :
                    Contains(clean_titulo, limpiar_texto(Lower(text_lines[n]))) }
    IN  IF NoPageText(text_lines) \/ hits = {} THEN None
        ELSE CHOOSE n \in hits : \A m \in hits : n <= m

MInit ==
    /\ page_texts \in { <<p1, p2>> : p1 \in SeqsUpTo(MatchLines, MaxMatchLines),
                                     p2 \in SeqsUpTo(MatchLines, 1) }
    /\ entry \in { [ document_id |-> MatchDoc, title |-> t, page |-> p ] :
                     t \in MatchTitles, p \in 1..2 }
    /\ table_df = <<>>
    /\ merged_df = <<>>
    /\ stream_line = None
    /\ mpc = "start"

\* the line-extraction run has written the line table
ExtractTable ==
    /\ mpc = "start"
    /\ table_df' = OtherLines \o DocumentLines(MatchDoc, page_texts, 1)
    /\ mpc' = "extracted"
    /\ UNCHANGED <<page_texts, entry, merged_df, stream_line>>

MatchTitlesWithLines ==
    /\ mpc = "extracted"
    /\ merged_df' = MergeLeft(entry, table_df)
    /\ mpc' = "merged"
    /\ UNCHANGED <<page_texts, entry, table_df, stream_line>>

EncontrarLineaTitulo ==
    /\ mpc = "merged"
    /\ stream_line' = encontrar_linea_titulo(page_texts, entry.title, entry.page)
    /\ mpc' = "found"
    /\ UNCHANGED <<page_texts, entry, table_df, merged_df>>

InitMatch == MInit /\ XIdle /\ SIdle /\ NIdle /\ OIdle /\ BIdle /\ RIdle /\ LaterIdle

NextMatch ==
    \/ ExtractTable /\ UNCHANGED <<xvars, svars, nvars, ovars, bvars, rvars, latervars>>
    \/ MatchTitlesWithLines /\ UNCHANGED <<xvars, svars, nvars, ovars, bvars, rvars, latervars>>
    \/ EncontrarLineaTitulo /\ UNCHANGED <<xvars, svars, nvars, ovars, bvars, rvars, latervars>>

SpecMatch == InitMatch /\ [][NextMatch]_vars

(***************************************************************************)
(* Properties of the matcher.                                              *)
(***************************************************************************)
Merged == mpc \in { "merged", "found" }

\* the line numbers of the entry's document and page whose normalized text
\* contains the normalized title
ContainingLines ==
    { r.line_number : r \in
        { table_df[k] : k \in { j \in 1..Len(table_df) :
            /\ table_df[j].document_id = entry.document_id
            /\ table_df[j].page_number = entry.page
            /\ Contains(clean_text(entry.title), clean_text(table_df[j].line_text)) } } }

MatchedLineNumbers ==
    { merged_df[k].line_number : k \in 1..Len(merged_df) } \ { NaN }

\* C12: an entry is matched to a line exactly when the line is a record of
\* the same document on the target page whose normalized text contains the
\* normalized title; a line holding the title and more text is a match.
C12_MatchIsContainment ==
    Merged => /\ MatchedLineNumbers \subseteq ContainingLines
              /\ (ContainingLines # {} => MatchedLineNumbers # {})

\* C13: one matched entry per outline entry, carrying the lowest matching
\* line_number, or null when no line matches.
C13_OneRowFirstMatch ==
    Merged =>
        /\ Len(merged_df) = 1
        /\ \A n \in MatchedLineNumbers :
             \A k \in 1..Len(table_df) :
                (/\ table_df[k].document_id = entry.document_id
                 /\ table_df[k].page_number = entry.page
                 /\ clean_text(table_df[k].line_text) = clean_text(entry.title))
                => n <= table_df[k].line_number

\* C14: a title and a line of the target page that differ only in letter
\* case match, at that line's position.
C14_CaseInsensitive ==
    Merged =>
        \A k \in 1..Len(table_df) :
            (/\ table_df[k].document_id = entry.document_id
             /\ table_df[k].page_number = entry.page
             /\ Lower(table_df[k].line_text) = Lower(clean_text(entry.title)))
            => table_df[k].line_number \in MatchedLineNumbers

\* C15: matching against the persisted table and matching against the
\* freshly split lines of the page give the same line_number, both null or
\* the same number.
C15_ModesEquivalent ==
    mpc = "found" =>
        \A k \in 1..Len(merged_df) :
            IF stream_line = None THEN merged_df[k].line_number = NaN
            ELSE merged_df[k].line_number = stream_line

(***************************************************************************)
(* Outline extractor: extract_outline_content and its nested               *)
(* process_outline_item (masive_async_pdf_outline_extractor.py).           *)
(***************************************************************************)
\* items of one list of the bookmark tree
MaxWidth == 2

\* the depth at which process_outline_item keeps a leaf
TargetDepth == 2

\* a nested list of the bookmark tree
ListNode(items) ==
    [ kind |-> "list", items |-> items, title |-> "", int_page |-> FALSE,
      physical |-> 0, raises |-> FALSE ]

\* a Destination: item.page is an integer, or an indirect reference that
\* reader.get_destination_page_number(item) resolves or fails to resolve
LeafNode(title, int_page, physical, raises) ==
    [ kind |-> "leaf", items |-> <<>>, title |-> title, int_page |-> int_page,
      physical |-> physical, raises |-> raises ]

\* the leaves that can stand at nesting depth d: one with an integer page,
\* two with an indirect page reference, of which one fails to resolve
LeavesAt(d) ==
    { LeafNode("A" \o Digits[d], TRUE, 0, FALSE),
      LeafNode("B  " \o Digits[d], FALSE, 1, FALSE),
      LeafNode("C" \o Digits[d], FALSE, 0, TRUE) }

\* the items that can stand at nesting depth d; the tree is three deep
RECURSIVE NodesAt(_)
NodesAt(d) ==
    IF d >= TargetDepth + 1
    THEN { n \in LeavesAt(d) : n.int_page \/ n.raises }
    ELSE LeavesAt(d) \cup { ListNode(items) : items \in SeqsUpTo(NodesAt(d + 1), MaxWidth) }

\* reader.outline
Outlines == SeqsUpTo(NodesAt(1), MaxWidth)

\* AsyncPDFOutlineExtractor.clean_text: ' '.join(text.split())
outline_clean_text(text) == Strip(CollapseSpaces(text, 1))

\* reader.get_destination_page_number(item) raises
ResolveRaises_Never(item) == FALSE
ResolveRaises(item) == ~item.int_page /\ item.raises

\* page_number = item.page if isinstance(item.page, int)
\*               else reader.get_destination_page_number(item) + 1
PageNumber(item) == IF item.int_page THEN item.physical ELSE item.physical + 1

\* the depth passed to the items of a list
EnterDepth_Same(depth) == depth
EnterDepth(depth) == depth + 1

OutlineEntry(item, depth) ==
    [ title |-> outline_clean_text(item.title),
      page |-> PageNumber(item) + 1,
      depth |-> depth ]

\* process_outline_item(item, depth), appending to the list acc;
\* ProcessItems is its loop  for subitem in item  from item k on
RECURSIVE process_outline_item(_, _, _)
RECURSIVE ProcessItems(_, _, _, _)
process_outline_item(item, depth, acc) ==
    IF item.kind = "list"
    THEN ProcessItems(item.items, 1, EnterDepth(depth), acc)
    ELSE IF ResolveRaises(item) THEN acc
    ELSE IF depth = TargetDepth THEN Append(acc, OutlineEntry(item, depth))
    ELSE acc

ProcessItems(items, k, depth, acc) ==
    IF k > Len(items) THEN acc
    ELSE ProcessItems(items, k + 1, depth, process_outline_item(items[k], depth, acc))

\* extract_outline_content
extract_outline_content(tree) ==
    IF tree = <<>> THEN <<>>
    ELSE process_outline_item(ListNode(tree), 0, <<>>)

OInit ==
    /\ outline \in Outlines
    /\ outlines = <<>>
    /\ opc = "start"

ExtractOutlineContent ==
    /\ opc = "start"
    /\ outlines' = extract_outline_content(outline)
    /\ opc' = "done"
    /\ UNCHANGED outline

InitOutline == OInit /\ XIdle /\ SIdle /\ NIdle /\ MIdle /\ BIdle /\ RIdle /\ LaterIdle

NextOutline ==
    \/ ExtractOutlineContent /\ UNCHANGED <<xvars, svars, nvars, mvars, bvars, rvars, latervars>>

SpecOutline == InitOutline /\ [][NextOutline]_vars

(***************************************************************************)
(* Properties of the outline extractor.                                    *)
(***************************************************************************)
\* the index paths of length n, in lexicographic order
RECURSIVE LexPaths(_)
LexPaths(n) ==
    IF n = 0 THEN << <<>> >>
    ELSE LET shorter == LexPaths(n - 1)
             count == Len(shorter)
         IN  [ k \in 1..(MaxWidth * count) |->
                 << ((k - 1) \div count) + 1 >> \o shorter[((k - 1) % count) + 1] ]

\* the node a path leads to from a list of items, or a list node without
\* items when the path leaves the tree
RECURSIVE NodeAt(_, _)
NodeAt(items, path) ==
    IF Head(path) > Len(items) THEN ListNode(<<>>)
    ELSE IF Len(path) = 1 THEN items[Head(path)]
    ELSE IF items[Head(path)].kind = "list"
         THEN NodeAt(items[Head(path)].items, Tail(path))
         ELSE ListNode(<<>>)

\* the leaves with exactly d enclosing lists, left to right
LeavesAtDepth(d) ==
    LET paths == SelectSeq(LexPaths(d), LAMBDA p : NodeAt(outline, p).kind = "leaf")
    IN  [ k \in 1..Len(paths) |-> NodeAt(outline, paths[k]) ]

Resolves(leaf) == leaf.int_page \/ ~leaf.raises

LeafTitles(leaves) == [ k \in 1..Len(leaves) |-> outline_clean_text(leaves[k].title) ]

EntryTitles == [ k \in 1..Len(outlines) |-> outlines[k].title ]

\* C16: every emitted entry has page = resolved physical page + 1, for an
\* integer page and for a page resolved through the reader alike.
C16_PagePlusOne ==
    opc = "done" =>
        LET emitted == SelectSeq(LeavesAtDepth(TargetDepth), Resolves)
        IN  \A k \in 1..Len(outlines) :
                k <= Len(emitted) => outlines[k].page = emitted[k].physical + 1

C18_SkipFailingLeaf ==
    /\ opc \in { "start", "done" }
    /\ opc = "done" =>
          /\ EntryTitles = LeafTitles(SelectSeq(LeavesAtDepth(TargetDepth), Resolves))
          /\ (outline = <<>> => outlines = <<>>)

\* a failing leaf at the target depth between two leaves that are emitted
C18_Witness ==
    /\ opc = "done"
    /\ LET target == LeavesAtDepth(TargetDepth)
       IN  \E j \in 2..(Len(target) - 1) :
              /\ ~Resolves(target[j])
              /\ Resolves(target[j - 1])
              /\ Resolves(target[j + 1])
    /\ Len(outlines) >= 2

(***************************************************************************)
(* Line-extraction run: AsyncPDFConverter.convert_all, process_batch,      *)
(* extract_pdf_content and safe_pdf_operation (pdf_to_parquet.py).         *)
(***************************************************************************)
\* PDF files of one run
MaxFiles == 3
\* lines extract_line_content collects from one file
MaxFileLines == 2
\* files per batch (batch_size of convert_all, 10 in the source)
FileBatchSize == 2
\* records per parquet file (self.batch_size, 1000 in the source)
FlushSize == 2

FileNames == << "f1", "f2", "f3", "f4", "f5", "f6", "f7", "f8", "f9" >>

\* what the executor does with the operation: it returns, it raises, or it
\* is still running when the timeout expires
Outcomes == { "ok", "raises", "timeout" }

\* a PDF file: the lines extract_line_content has collected when it
\* returns, raises or is abandoned, and which of the three happens
PdfFile(k, n, outcome) ==
    [ document_id |-> FileNames[k], count |-> n, outcome |-> outcome ]

\* the runs: every sequence of up to MaxFiles files
FileRuns ==
    UNION { { [ k \in 1..n |-> PdfFile(k, c[k], o[k]) ] :
                c \in [ 1..n -> 0..MaxFileLines ], o \in [ 1..n -> Outcomes ] } :
            n \in 0..MaxFiles }

\* the PDFSection rows of the lines of a file
FileSections(file) ==
    [ k \in 1..file.count |-> [ document_id |-> file.document_id, line_number |-> k ] ]

\* safe_pdf_operation: the result of the operation, or None after
\* asyncio.TimeoutError or any other exception
SafePdfOperation_Partial(file) == [ none |-> FALSE, value |-> FileSections(file) ]
SafePdfOperation(file) ==
    IF file.outcome = "ok"
    THEN [ none |-> FALSE, value |-> FileSections(file) ]
    ELSE [ none |-> TRUE, value |-> <<>> ]

\* extract_pdf_content: the sections of the lines returned, if any
extract_pdf_content(file) ==
    LET result == SafePdfOperation(file)
    IN  IF ~result.none /\ result.value # <<>> THEN result.value ELSE <<>>

BInit ==
    /\ all_files \in FileRuns
    /\ file_idx = 0
    /\ batch_sections = <<>>
    /\ all_sections = <<>>
    /\ parquet_files = <<>>
    /\ bpc = "start"

\* if not all_files: return
NoFilesFound ==
    /\ bpc = "start"
    /\ all_files = <<>>
    /\ bpc' = "done"
    /\ UNCHANGED <<all_files, file_idx, batch_sections, all_sections, parquet_files>>

\* the first batch is handed to process_batch
StartBatches ==
    /\ bpc = "start"
    /\ all_files # <<>>
    /\ bpc' = "files"
    /\ UNCHANGED <<all_files, file_idx, batch_sections, all_sections, parquet_files>>

\* one iteration of process_batch's loop over the files of the batch
ProcessFile ==
    /\ bpc = "files"
    /\ file_idx < Len(all_files)
    /\ batch_sections' = batch_sections \o extract_pdf_content(all_files[file_idx + 1])
    /\ file_idx' = file_idx + 1
    /\ bpc' = IF file_idx' % FileBatchSize = 0 \/ file_idx' = Len(all_files)
              THEN "extend" ELSE "files"
    /\ UNCHANGED <<all_files, all_sections, parquet_files>>

\* process_batch returns: all_sections.extend(batch_sections), and the
\* write of batch_<n>.parquet when enough sections are collected
EndBatch ==
    /\ bpc = "extend"
    /\ LET collected == all_sections \o batch_sections
       IN  IF Len(collected) >= FlushSize
           THEN /\ parquet_files' = Append(parquet_files, collected)
                /\ all_sections' = <<>>
           ELSE /\ parquet_files' = parquet_files
                /\ all_sections' = collected
    /\ batch_sections' = <<>>
    /\ bpc' = IF file_idx < Len(all_files) THEN "files" ELSE "remaining"
    /\ UNCHANGED <<all_files, file_idx>>

\* if all_sections: write final_batch.parquet
WriteRemaining ==
    /\ bpc = "remaining"
    /\ parquet_files' = IF all_sections # <<>>
                        THEN Append(parquet_files, all_sections)
                        ELSE parquet_files
    /\ bpc' = "merge"
    /\ UNCHANGED <<all_files, file_idx, batch_sections, all_sections>>

\* pa.concat_tables over the files of the output directory
RECURSIVE ConcatTables(_)
ConcatTables(tables) ==
    IF tables = <<>> THEN <<>> ELSE Head(tables) \o ConcatTables(Tail(tables))

\* merge_parquet_files: with more than one file, combined_documents.parquet
\* replaces them
MergeParquetFiles ==
    /\ bpc = "merge"
    /\ parquet_files' = IF Len(parquet_files) <= 1 THEN parquet_files
                        ELSE << ConcatTables(parquet_files) >>
    /\ bpc' = "done"
    /\ UNCHANGED <<all_files, file_idx, batch_sections, all_sections>>

InitBatch == BInit /\ XIdle /\ SIdle /\ NIdle /\ MIdle /\ OIdle /\ RIdle /\ LaterIdle

NextBatch ==
    \/ NoFilesFound /\ UNCHANGED <<xvars, svars, nvars, mvars, ovars, rvars, latervars>>
    \/ StartBatches /\ UNCHANGED <<xvars, svars, nvars, mvars, ovars, rvars, latervars>>
    \/ ProcessFile /\ UNCHANGED <<xvars, svars, nvars, mvars, ovars, rvars, latervars>>
    \/ EndBatch /\ UNCHANGED <<xvars, svars, nvars, mvars, ovars, rvars, latervars>>
    \/ WriteRemaining /\ UNCHANGED <<xvars, svars, nvars, mvars, ovars, rvars, latervars>>
    \/ MergeParquetFiles /\ UNCHANGED <<xvars, svars, nvars, mvars, ovars, rvars, latervars>>

SpecBatch == InitBatch /\ [][NextBatch]_vars

(***************************************************************************)
(* Properties of the line-extraction run.                                  *)
(***************************************************************************)
\* the sections held anywhere: written, or still to be written from the
\* collected list and the current batch
HeldSections ==
    IF bpc \in { "merge", "done" } THEN ConcatTables(parquet_files)
    ELSE ConcatTables(parquet_files) \o all_sections \o batch_sections

\* the sections of the files that were extracted without failure, among the
\* first n files, in file order
RECURSIVE GoodSections(_)
GoodSections(n) ==
    IF n = 0 THEN <<>>
    ELSE GoodSections(n - 1) \o
         (IF all_files[n].outcome = "ok" THEN FileSections(all_files[n]) ELSE <<>>)

MaxEntries == 2

\* a PDF file: the entries extract_outline_content returns, and whether it
\* returns them ("ok"), fails while opening the document ("raises": its own
\* except clause then returns the empty list) or is still running when the
\* timeout expires
OutlineFile(k, n, outcome) ==
    [ document_id |-> FileNames[k], count |-> n, outcome |-> outcome ]

OutlineRuns ==
    UNION { { [ k \in 1..n |-> OutlineFile(k, c[k], o[k]) ] :
                c \in [ 1..n -> 0..MaxEntries ], o \in [ 1..n -> Outcomes ] } :
            n \in 0..MaxFiles }

FileOutlines(file) ==
    [ k \in 1..file.count |-> [ document_id |-> file.document_id, entry |-> k ] ]

\* extract_pdf_outline: what safe_pdf_operation(extract_outline_content)
\* returns: the list of entries, or None after asyncio.TimeoutError
extract_pdf_outline(file) ==
    IF file.outcome = "ok" THEN [ none |-> FALSE, value |-> FileOutlines(file) ]
    ELSE IF file.outcome = "raises" THEN [ none |-> FALSE, value |-> <<>> ]
    ELSE [ none |-> TRUE, value |-> <<>> ]

\* outlines_<year>.csv has not been written
NotWritten == [ written |-> FALSE, rows |-> <<>> ]

RInit ==
    /\ pdf_files \in OutlineRuns
    /\ pdf_idx = 0
    /\ batch_outlines = <<>>
    /\ all_outlines = <<>>
    /\ csv_rows = NotWritten
    /\ rpc = "start"

\* if not all_files: return
NoPdfFound ==
    /\ rpc = "start"
    /\ pdf_files = <<>>
    /\ rpc' = "done"
    /\ UNCHANGED <<pdf_files, pdf_idx, batch_outlines, all_outlines, csv_rows>>

StartOutlineBatches ==
    /\ rpc = "start"
    /\ pdf_files # <<>>
    /\ rpc' = "files"
    /\ UNCHANGED <<pdf_files, pdf_idx, batch_outlines, all_outlines, csv_rows>>

\* one iteration of process_batch's loop: all_outlines.extend(outlines)
\* raises TypeError when outlines is None, and nothing catches it
ExtractFileOutline ==
    /\ rpc = "files"
    /\ pdf_idx < Len(pdf_files)
    /\ LET result == extract_pdf_outline(pdf_files[pdf_idx + 1])
       IN  IF result.none
           THEN /\ rpc' = "raised"
                /\ UNCHANGED <<pdf_idx, batch_outlines>>
           ELSE /\ batch_outlines' = batch_outlines \o result.value
                /\ pdf_idx' = pdf_idx + 1
                /\ rpc' = IF pdf_idx' % FileBatchSize = 0 \/ pdf_idx' = Len(pdf_files)
                          THEN "extend" ELSE "files"
    /\ UNCHANGED <<pdf_files, all_outlines, csv_rows>>

\* process_batch returns: all_outlines.extend(batch_outlines)
EndOutlineBatch ==
    /\ rpc = "extend"
    /\ all_outlines' = all_outlines \o batch_outlines
    /\ batch_outlines' = <<>>
    /\ rpc' = IF pdf_idx < Len(pdf_files) THEN "files" ELSE "write"
    /\ UNCHANGED <<pdf_files, pdf_idx, csv_rows>>

\* if all_outlines: df.to_csv(output_path)
WriteCsv ==
    /\ rpc = "write"
    /\ csv_rows' = IF all_outlines # <<>>
                   THEN [ written |-> TRUE, rows |-> all_outlines ]
                   ELSE csv_rows
    /\ rpc' = "done"
    /\ UNCHANGED <<pdf_files, pdf_idx, batch_outlines, all_outlines>>

InitRun == RInit /\ XIdle /\ SIdle /\ NIdle /\ MIdle /\ OIdle /\ BIdle /\ LaterIdle

NextRun ==
    \/ NoPdfFound /\ UNCHANGED <<xvars, svars, nvars, mvars, ovars, bvars, latervars>>
    \/ StartOutlineBatches /\ UNCHANGED <<xvars, svars, nvars, mvars, ovars, bvars, latervars>>
    \/ ExtractFileOutline /\ UNCHANGED <<xvars, svars, nvars, mvars, ovars, bvars, latervars>>
    \/ EndOutlineBatch /\ UNCHANGED <<xvars, svars, nvars, mvars, ovars, bvars, latervars>>
    \/ WriteCsv /\ UNCHANGED <<xvars, svars, nvars, mvars, ovars, bvars, latervars>>

SpecRun == InitRun /\ [][NextRun]_vars

(***************************************************************************)
(* Properties of the outline-extraction run.                               *)
(***************************************************************************)
\* the entries of the documents extracted without failure, among the first
\* n files, in file order
RECURSIVE GoodOutlines(_)
GoodOutlines(n) ==
    IF n = 0 THEN <<>>
    ELSE GoodOutlines(n - 1) \o
         (IF pdf_files[n].outcome = "ok" THEN FileOutlines(pdf_files[n]) ELSE <<>>)

\* C20: a per-document timeout or failure is local: the run does not stop,
\* the document contributes no entry, and at the end every file is
\* processed and the entries of the other documents are in the output.
C20_FailureIsLocal ==
    /\ rpc # "raised"
    /\ rpc = "done" =>
          /\ pdf_idx = Len(pdf_files)
          /\ csv_rows.rows = GoodOutlines(Len(pdf_files))

\* C21: the records of a file batch are written before the next file batch
\* starts: when process_batch is entered for a later batch, convert_all
\* holds no record in memory only.
C21_FlushedBeforeNextBatch ==
    (bpc = "files" /\ file_idx > 0 /\ file_idx % FileBatchSize = 0)
        => all_sections = <<>>

(***************************************************************************)
(* Merge of the batch files: AsyncPDFConverter.merge_parquet_files         *)
(* (pdf_to_parquet.py), the last step of convert_all.                      *)
(***************************************************************************)
\* batch files in the output directory
MaxBatchFiles == 2
\* rows of one batch file
MaxBatchRows == 1

BatchFileNames == << "batch_0.parquet", "batch_1.parquet", "batch_2.parquet",
                     "batch_3.parquet", "batch_4.parquet" >>

\* a batch file is as written, or has other columns than the expected ones,
\* or cannot be read, or has the expected columns with other types
FileKinds == { "good", "columns", "unreadable", "types" }

\* the keys of the rows of the batch files
RowIds == { "r1", "r2" }

BatchFile(k, kind, rows) == [ name |-> BatchFileNames[k], kind |-> kind, rows |-> rows ]

\* list(self.output_dir.glob("*.parquet"))
Directories ==
    UNION { { [ k \in 1..n |-> BatchFile(k, kinds[k], rows[k]) ] :
                kinds \in [ 1..n -> FileKinds ],
                rows \in [ 1..n -> SeqsUpTo(RowIds, MaxBatchRows) ] } :
            n \in 0..MaxBatchFiles }

\* combined_documents.parquet does not exist
NoCombined == [ table |-> <<>>, written |-> "no" ]

\* the step that follows the loop reading the files
AfterRead_Unlink == "unlink"
AfterRead == "concat"

GInit ==
    /\ merge_files \in Directories
    /\ on_disk = 1..Len(merge_files)
    /\ read_tables = <<>>
    /\ combined = NoCombined
    /\ merge_log = ""
    /\ gpc = "start"

\* if len(parquet_files) <= 1: return
GlobFiles ==
    /\ gpc = "start"
    /\ gpc' = IF Len(merge_files) <= 1 THEN "returned" ELSE "read"
    /\ UNCHANGED <<merge_files, on_disk, read_tables, combined, merge_log>>

\* one iteration of  for file in parquet_files : pq.read_table and the
\* schema validation; an exception goes to the except clause of the
\* function, which logs it and lets the function return
ReadTable ==
    /\ gpc = "read"
    /\ Len(read_tables) < Len(merge_files)
    /\ LET file == merge_files[Len(read_tables) + 1]
       IN  IF file.kind = "unreadable"
           THEN /\ merge_log' = "Error merging parquet files: cannot read"
                /\ gpc' = "returned"
                /\ UNCHANGED read_tables
           ELSE IF file.kind = "columns"
           THEN /\ merge_log' = "Error merging parquet files: Unexpected schema in "
                                \o file.name
                /\ gpc' = "returned"
                /\ UNCHANGED read_tables
           ELSE /\ read_tables' = Append(read_tables, file)
                /\ gpc' = IF Len(read_tables') = Len(merge_files)
                          THEN AfterRead ELSE "read"
                /\ UNCHANGED merge_log
    /\ UNCHANGED <<merge_files, on_disk, combined>>

\* combined_table = pa.concat_tables(tables)
ConcatStep ==
    /\ gpc = "concat"
    /\ IF \E k \in 1..Len(read_tables) : read_tables[k].kind = "types"
       THEN /\ merge_log' = "Error merging parquet files: schema types differ"
            /\ gpc' = "returned"
            /\ UNCHANGED combined
       ELSE /\ combined' = [ table |-> ConcatTables([ k \in 1..Len(read_tables) |->
                                                       read_tables[k].rows ]),
                             written |-> "no" ]
            /\ gpc' = "write"
            /\ UNCHANGED merge_log
    /\ UNCHANGED <<merge_files, on_disk, read_tables>>

\* pq.write_table(combined_table, final_path) completes
WriteCombined ==
    /\ gpc = "write"
    /\ combined' = [ combined EXCEPT !.written = "complete" ]
    /\ gpc' = "unlink"
    /\ UNCHANGED <<merge_files, on_disk, read_tables, merge_log>>

\* pq.write_table raises part way
WriteCombinedFails ==
    /\ gpc = "write"
    /\ combined' = [ combined EXCEPT !.written = "partial" ]
    /\ merge_log' = "Error merging parquet files: write failed"
    /\ gpc' = "returned"
    /\ UNCHANGED <<merge_files, on_disk, read_tables>>

\* one iteration of  for file in parquet_files : file.unlink()
UnlinkFile ==
    /\ gpc = "unlink"
    /\ on_disk # {}
    /\ on_disk' = on_disk \ { CHOOSE k \in on_disk : \A j \in on_disk : k <= j }
    /\ UNCHANGED <<merge_files, read_tables, combined, merge_log, gpc>>

\* the loop over the files ends and the function returns
FinishMerge ==
    /\ gpc = "unlink"
    /\ on_disk = {}
    /\ gpc' = "returned"
    /\ UNCHANGED <<merge_files, on_disk, read_tables, combined, merge_log>>

OtherIdleG == XIdle /\ SIdle /\ NIdle /\ MIdle /\ OIdle /\ BIdle /\ RIdle
                 /\ CIdle /\ TIdle /\ DIdle

InitMerge == GInit /\ OtherIdleG

UnchangedButG ==
    UNCHANGED <<xvars, svars, nvars, mvars, ovars, bvars, rvars, cvars, tvars, dvars>>

NextMerge ==
    \/ GlobFiles /\ UnchangedButG
    \/ ReadTable /\ UnchangedButG
    \/ ConcatStep /\ UnchangedButG
    \/ WriteCombined /\ UnchangedButG
    \/ WriteCombinedFails /\ UnchangedButG
    \/ UnlinkFile /\ UnchangedButG
    \/ FinishMerge /\ UnchangedButG

SpecMerge == InitMerge /\ [][NextMerge]_vars

(***************************************************************************)
(* Properties of the merge.                                                *)
(***************************************************************************)
\* the loop over the files reaches a file with unexpected columns
SchemaMismatchMet ==
    /\ Len(merge_files) > 1
    /\ \E k \in 1..Len(merge_files) :
          /\ merge_files[k].kind = "columns"
          /\ \A j \in 1..(k - 1) : merge_files[j].kind \in { "good", "types" }

\* C22: when a batch file's schema differs from the declared one, the merge
\* fails and the run halts with an error naming the file: the function does
\* not return to convert_all as after a merge that succeeded.
C22_SchemaMismatchHalts == SchemaMismatchMet => gpc # "returned"

AllRows == ConcatTables([ k \in 1..Len(merge_files) |-> merge_files[k].rows ])

C24_MergeDeduplicates ==
    combined.written = "complete" =>
        \A a, b \in 1..Len(combined.table) :
            combined.table[a] = combined.table[b] => a = b

(***************************************************************************)
(* Corpus cleanup: main of list_duplicate_content.py with                  *)
(* clean_duplicate_characters and remove_consecutive_duplicates.           *)
(***************************************************************************)
\* sections of the corpus
MaxSections == 2
\* lines of the content of one section
MaxContentLines == 3

\* the line texts the contents are made of
ContentLines == { "a", "b", "a---" }

NullDocumentId == "<null>"

\* '\n'.join(lines)
RECURSIVE JoinNewline(_)
JoinNewline(ls) ==
    IF ls = <<>> THEN ""
    ELSE IF Len(ls) = 1 THEN ls[1]
    ELSE ls[1] \o "\n" \o JoinNewline(Tail(ls))

\* content.split('\n'): cur is the line being read from position k on
RECURSIVE SplitFrom(_, _, _)
SplitFrom(s, k, cur) ==
    IF k > Len(s) THEN << cur >>
    ELSE IF Char(s, k) = "\n" THEN << cur >> \o SplitFrom(s, k + 1, "")
    ELSE SplitFrom(s, k + 1, cur \o Char(s, k))

SplitNewline(s) == SplitFrom(s, 1, "")

\* a row of the section table as save_sections_to_parquet writes it: the
\* content is the joined lines and content_length their number
SectionInput(id, doc, ls) ==
    [ id |-> id, document_id |-> doc, content |-> JoinNewline(ls),
      content_length |-> Len(ls), has_duplicates |-> FALSE,
      cleaned_content |-> "" ]

\* what a section of the input is made of: its document and its lines
SectionSources ==
    [ document_id : { "d1", NullDocumentId },
      lines : SeqsUpTo(ContentLines, MaxContentLines) ]

\* df = pd.read_parquet(input_path)
ReadCorpus(src) ==
    [ k \in 1..Len(src) |-> SectionInput(k, src[k].document_id, src[k].lines) ]

\* the replacements of clean_duplicate_characters, in the order of the dict
Replacements == << "-", ",", ".", ";", ":", "°", "/" >>

\* for old, new in replacements.items(): content = content.replace(old, new)
RECURSIVE ApplyReplacements(_, _)
ApplyReplacements(content, k) ==
    IF k > Len(Replacements) THEN content
    ELSE ApplyReplacements(ReplaceDouble(content, Replacements[k], 1), k + 1)

clean_duplicate_characters(content) == ApplyReplacements(content, 1)

\* find_duplicate_lines
find_duplicate_lines(content) ==
    LET ls == SplitNewline(content)
    IN  \E k \in 1..(Len(ls) - 1) : ls[k] = ls[k + 1]

\* previous_line after a line was appended; <<>> stands for None
NextPrevious_None(line) == <<>>
NextPrevious(line) == << line >>

\* the loop of remove_consecutive_duplicates from line k on
RECURSIVE CleanedLines(_, _, _)
CleanedLines(ls, k, previous_line) ==
    IF k > Len(ls) THEN <<>>
    ELSE IF previous_line = <<>> \/ ls[k] # previous_line[1]
         THEN << ls[k] >> \o CleanedLines(ls, k + 1, NextPrevious(ls[k]))
         ELSE CleanedLines(ls, k + 1, previous_line)

remove_consecutive_duplicates(content) ==
    JoinNewline(CleanedLines(SplitNewline(content), 1, <<>>))

CInit ==
    /\ \E n \in 1..MaxSections :
          \E src \in [ 1..n -> SectionSources ] : input_df = ReadCorpus(src)
    /\ corpus_df = input_df
    /\ report_csv = <<>>
    /\ cleaned_parquet = <<>>
    /\ recleaned = <<>>
    /\ cpc = "loaded"

\* df = df[df['document_id'].notna()]
FilterDocumentId ==
    /\ cpc = "loaded"
    /\ corpus_df' = SelectSeq(corpus_df, LAMBDA row : row.document_id # NullDocumentId)
    /\ cpc' = "filtered"
    /\ UNCHANGED <<input_df, report_csv, cleaned_parquet, recleaned>>

\* df['content'] = df['content'].apply(clean_duplicate_characters)
CleanCharacters ==
    /\ cpc = "filtered"
    /\ corpus_df' = [ k \in 1..Len(corpus_df) |->
                        [ corpus_df[k] EXCEPT
                            !.content = clean_duplicate_characters(corpus_df[k].content) ] ]
    /\ cpc' = "chars"
    /\ UNCHANGED <<input_df, report_csv, cleaned_parquet, recleaned>>

\* df['has_duplicates'] = ..., and the report of the rows that have them
ReportDuplicates ==
    /\ cpc = "chars"
    /\ corpus_df' = [ k \in 1..Len(corpus_df) |->
                        [ corpus_df[k] EXCEPT
                            !.has_duplicates = find_duplicate_lines(corpus_df[k].content) ] ]
    /\ report_csv' = SelectSeq(corpus_df', LAMBDA row : row.has_duplicates)
    /\ cpc' = "report"
    /\ UNCHANGED <<input_df, cleaned_parquet, recleaned>>

\* df['cleaned_content'] = df['content'].apply(remove_consecutive_duplicates)
RemoveDuplicateLines ==
    /\ cpc = "report"
    /\ corpus_df' = [ k \in 1..Len(corpus_df) |->
                        [ corpus_df[k] EXCEPT
                            !.cleaned_content =
                                remove_consecutive_duplicates(corpus_df[k].content) ] ]
    /\ cpc' = "lines"
    /\ UNCHANGED <<input_df, report_csv, cleaned_parquet, recleaned>>

\* df = df[df['content_length'] > 0]; df.to_parquet(output_cleaned_path)
FilterLengthAndSave ==
    /\ cpc = "lines"
    /\ corpus_df' = SelectSeq(corpus_df, LAMBDA row : row.content_length > 0)
    /\ cleaned_parquet' = corpus_df'
    /\ cpc' = "saved"
    /\ UNCHANGED <<input_df, report_csv, recleaned>>

\* the two cleanup steps applied to the cleaned content of the corpus
CleanAgain ==
    /\ cpc = "saved"
    /\ recleaned' = [ k \in 1..Len(cleaned_parquet) |->
                        remove_consecutive_duplicates(
                            clean_duplicate_characters(cleaned_parquet[k].cleaned_content)) ]
    /\ cpc' = "again"
    /\ UNCHANGED <<input_df, corpus_df, report_csv, cleaned_parquet>>

OtherIdleC == XIdle /\ SIdle /\ NIdle /\ MIdle /\ OIdle /\ BIdle /\ RIdle
                 /\ GIdle /\ TIdle /\ DIdle

InitClean == CInit /\ OtherIdleC

UnchangedButC ==
    UNCHANGED <<xvars, svars, nvars, mvars, ovars, bvars, rvars, gvars, tvars, dvars>>

NextClean ==
    \/ FilterDocumentId /\ UnchangedButC
    \/ CleanCharacters /\ UnchangedButC
    \/ ReportDuplicates /\ UnchangedButC
    \/ RemoveDuplicateLines /\ UnchangedButC
    \/ FilterLengthAndSave /\ UnchangedButC
    \/ CleanAgain /\ UnchangedButC

SpecClean == InitClean /\ [][NextClean]_vars

(***************************************************************************)
(* Properties of the corpus cleanup.                                       *)
(***************************************************************************)
\* C25: the cleanup is idempotent: the substitution table followed by the
\* removal of consecutive duplicate lines, applied to content that has been
\* through both, returns it unchanged.
C25_CleanupIdempotent ==
    cpc = "again" =>
        \A k \in 1..Len(cleaned_parquet) :
            recleaned[k] = cleaned_parquet[k].cleaned_content

LinesCleaned == cpc \in { "lines", "saved", "again" }

\* the lines that differ from their predecessor, in order
FirstOfRuns(ls) ==
    LET kept == { k \in 1..Len(ls) : k = 1 \/ ls[k] # ls[k - 1] }
        Rank(k) == Cardinality({ j \in kept : j <= k })
    IN  [ n \in 1..Cardinality(kept) |-> ls[CHOOSE k \in kept : Rank(k) = n] ]

\* C26: remove_consecutive_duplicates reduces every maximal run of equal
\* adjacent lines to its first line: no two adjacent lines of the result
\* are equal, the other lines keep their order, repeats that are not
\* adjacent stay, and applying the function again changes nothing.
C26_RunsReducedToFirst ==
    LinesCleaned =>
        \A k \in 1..Len(corpus_df) :
            LET before == SplitNewline(corpus_df[k].content)
                after == SplitNewline(corpus_df[k].cleaned_content)
            IN  /\ after = FirstOfRuns(before)
                /\ \A j \in 1..(Len(after) - 1) : after[j] # after[j + 1]
                /\ remove_consecutive_duplicates(corpus_df[k].cleaned_content)
                      = corpus_df[k].cleaned_content

\* a content with a run of equal lines that is shortened, and a content
\* whose repeated line is not adjacent and stays
C26_Witness ==
    /\ LinesCleaned
    /\ \E k \in 1..Len(corpus_df) :
          LET before == SplitNewline(corpus_df[k].content)
              after == SplitNewline(corpus_df[k].cleaned_content)
          IN  /\ Len(before) = 3 /\ Len(after) = 2
              /\ before[1] = before[2]
    /\ \E k \in 1..Len(corpus_df) :
          LET after == SplitNewline(corpus_df[k].cleaned_content)
          IN  /\ Len(after) = 3
              /\ after[1] = after[3]

Saved == cpc \in { "saved", "again" }

RowIdsOf(rows) == { rows[k].id : k \in 1..Len(rows) }

\* C27: a section with content_length 0 after the cleanup is not in the
\* cleaned corpus and is in the side table the run writes; no section of
\* the input is missing from both outputs.
C27_EmptySectionsKept ==
    Saved =>
        \A k \in 1..Len(input_df) :
            /\ input_df[k].content_length = 0
                  => /\ input_df[k].id \notin RowIdsOf(cleaned_parquet)
                     /\ input_df[k].id \in RowIdsOf(report_csv)
            /\ input_df[k].id \in RowIdsOf(cleaned_parquet) \cup RowIdsOf(report_csv)

\* C29: in the cleaned corpus content_length is the number of lines of the
\* cleaned content.
C29_LengthOfCleanedContent ==
    Saved =>
        \A k \in 1..Len(cleaned_parquet) :
            cleaned_parquet[k].content_length
                = Len(SplitNewline(cleaned_parquet[k].cleaned_content))

(***************************************************************************)
(* One raw string read as an outline title by the outline extractor and as *)
(* a page line by the line extractor, then cleaned by                      *)
(* match_titles_with_lines.                                                *)
(***************************************************************************)
TInit ==
    /\ raw_string \in Texts
    /\ outline_title = ""
    /\ line_text = ""
    /\ clean_title = ""
    /\ clean_line_text = ""
    /\ tpc = "raw"

\* 'title': self.clean_text(item.title) in the outline extractor
ExtractTitle ==
    /\ tpc = "raw"
    /\ outline_title' = outline_clean_text(raw_string)
    /\ tpc' = "title"
    /\ UNCHANGED <<raw_string, line_text, clean_title, clean_line_text>>

\* clean_line = self.clean_text(lines[i].strip()) in the line extractor
ExtractLine ==
    /\ tpc = "title"
    /\ line_text' = clean_text(Strip(raw_string))
    /\ tpc' = "line"
    /\ UNCHANGED <<raw_string, outline_title, clean_title, clean_line_text>>

\* the two apply(clean_text) calls of match_titles_with_lines
CleanTextFields ==
    /\ tpc = "line"
    /\ clean_title' = clean_text(outline_title)
    /\ clean_line_text' = clean_text(line_text)
    /\ tpc' = "cleaned"
    /\ UNCHANGED <<raw_string, outline_title, line_text>>

OtherIdleT == XIdle /\ SIdle /\ NIdle /\ MIdle /\ OIdle /\ BIdle /\ RIdle
                 /\ GIdle /\ CIdle /\ DIdle

InitComparable == TInit /\ OtherIdleT

UnchangedButT ==
    UNCHANGED <<xvars, svars, nvars, mvars, ovars, bvars, rvars, gvars, cvars, dvars>>

NextComparable ==
    \/ ExtractTitle /\ UnchangedButT
    \/ ExtractLine /\ UnchangedButT
    \/ CleanTextFields /\ UnchangedButT

SpecComparable == InitComparable /\ [][NextComparable]_vars

\* C28: a raw title and a raw line that are the same string have the same
\* merge key: the title, folded at outline extraction and cleaned once at
\* match time, equals the line, cleaned at line extraction and again at
\* match time, whenever the line extractor emitted the line.
C28_SameStringSameKey ==
    (tpc = "cleaned" /\ line_text # "") => clean_title = clean_line_text

(***************************************************************************)
(* Batch download: FileHandler.download_files_from_urls_batch and the      *)
(* while loop of main in masive_async_pdf_downloader.py.                   *)
(***************************************************************************)
\* rows of the input dataset
MaxData == 4
\* self.batch_size
DownloadBatchSize == 2

\* what happens to the row of the dataset: the file is downloaded, the
\* download returns None or raises, or the row has no URL
RowOutcomes == { "ok", "fail", "nourl" }

\* the value a call returned: None, or the list of the files downloaded
NoneReturned == [ none |-> TRUE, files |-> <<>> ]
FilesReturned(files) == [ none |-> FALSE, files |-> files ]

\* Python's  not downloaded_files
Falsy(returned) == returned.none \/ returned.files = <<>>

Min(a, b) == IF a <= b THEN a ELSE b

\* the list the batch call returns for the rows start_idx + 1 .. end_idx
RECURSIVE BatchFiles(_, _, _)
BatchFiles(rows, k, end_idx) ==
    IF k > end_idx THEN <<>>
    ELSE IF rows[k] = "ok" THEN << k >> \o BatchFiles(rows, k + 1, end_idx)
    ELSE BatchFiles(rows, k + 1, end_idx)

DInit ==
    /\ data \in SeqsUpTo(RowOutcomes, MaxData)
    /\ current_position = 0
    /\ downloaded_files = NoneReturned
    /\ submitted = {}
    /\ dpc = "call"

\* downloaded_files = await downloader.download_files_from_urls_batch()
DownloadFilesFromUrlsBatch ==
    /\ dpc = "call"
    /\ LET start_idx == current_position
           end_idx == Min(start_idx + DownloadBatchSize, Len(data))
       IN  IF start_idx >= Len(data)
           THEN /\ downloaded_files' = NoneReturned
                /\ UNCHANGED <<current_position, submitted>>
           ELSE /\ submitted' = submitted \cup
                        { k \in (start_idx + 1)..end_idx : data[k] # "nourl" }
                /\ downloaded_files' =
                        FilesReturned(BatchFiles(data, start_idx + 1, end_idx))
                /\ current_position' = end_idx
    /\ dpc' = "test"
    /\ UNCHANGED data

\* if not downloaded_files: break
BreakLoop ==
    /\ dpc = "test"
    /\ Falsy(downloaded_files)
    /\ dpc' = "stopped"
    /\ UNCHANGED <<data, current_position, downloaded_files, submitted>>

\* the rest of the loop body, back to the call
NextDownloadBatch ==
    /\ dpc = "test"
    /\ ~Falsy(downloaded_files)
    /\ dpc' = "call"
    /\ UNCHANGED <<data, current_position, downloaded_files, submitted>>

OtherIdleD == XIdle /\ SIdle /\ NIdle /\ MIdle /\ OIdle /\ BIdle /\ RIdle
                 /\ GIdle /\ CIdle /\ TIdle

InitDownload == DInit /\ OtherIdleD

UnchangedButD ==
    UNCHANGED <<xvars, svars, nvars, mvars, ovars, bvars, rvars, gvars, cvars, tvars>>

NextDownload ==
    \/ DownloadFilesFromUrlsBatch /\ UnchangedButD
    \/ BreakLoop /\ UnchangedButD
    \/ NextDownloadBatch /\ UnchangedButD

\* the loop runs on one task and every step of it terminates
SpecDownload == InitDownload /\ [][NextDownload]_vars /\ WF_vars(NextDownload)

\* C30: the download loop eventually passes every row of the dataset to a
\* batch: current_position reaches the length of the dataset, whatever the
\* number of files a batch downloaded.
C30_EveryRowSubmitted == <>(current_position = Len(data))

====
